---- MODULE Spec2Model ----
(***************************************************************************)
(* vncpasswd (unix/vncpasswd/vncpasswd.c) as a state machine.              *)
(*                                                                         *)
(* One behaviour is one run of main().  Strings are sequences of byte      *)
(* values (ASCII codes); C character arrays are fixed-length sequences of  *)
(* cells whose value is a byte or Indeterminate (never written).  Inputs   *)
(* (environment variables, terminal entries, standard input, the state of  *)
(* the file system, the X server's answers, the random source) are drawn   *)
(* from small sets when the code asks for them.                            *)
(***************************************************************************)
EXTENDS Integers, Sequences, FiniteSets, TLC

(* ---- bounds of the model ---- *)
MaxArgs == 3
MaxRounds == 1
MaxEntryLen == 9

(* ---- constants of the program ---- *)
MAXPWLEN == 8
PWTRUNC == 8
OTPWIDTH == 8
VIEWBIT == 16
MINPWLEN == 6
PWBUF == 9
LINEBUF == 256
MAXUSERLEN == 63
PASSWDFILE_SIZE == 263
HOME_MAX == 240
USER_MAX == 32
NL == 10
DASH == 45

(* A cell of a character array that was never written. *)
Indeterminate == 255 + 1

(* A null pointer where the code expects a string. *)
NullStr == << -1 >>

(* ---- strings ---- *)
Rep(n, c) == [k \in 1..n |-> c]

(* "abcdefghij...": position k holds a letter that depends on k. *)
Word(n) == [k \in 1..n |-> 97 + ((k - 1) % 26)]

(* s[k] of a C string (k counts from 0); the terminator is at k = Len(s). *)
CharAt(s, k) == IF k < Len(s) THEN s[k + 1] ELSE 0

Flag(c) == <<DASH, c>>

Str_display == <<45, 100, 105, 115, 112, 108, 97, 121>>
Str_tmp == <<47, 116, 109, 112>>
Str_dotvnc == <<47, 46, 118, 110, 99>>
Str_passwd == <<47, 112, 97, 115, 115, 119, 100>>
Str_dashvnc == <<45, 118, 110, 99>>
Str_stdout == <<DASH>>

(* strncmp(a, b, n) == 0 for strings without embedded NUL *)
StrNEq(a, b, n) == \A k \in 0..(n - 1) : CharAt(a, k) = CharAt(b, k)

(* ---- inputs ---- *)
WordLens == {0, 1, MAXUSERLEN, MAXUSERLEN + 1}

ArgTokens ==
  {Flag(102), Flag(116), Flag(111), Flag(99), Flag(97), Flag(114), Flag(118),
   Flag(120), Str_display}
  \cup {Word(n) : n \in WordLens}

ArgLists == UNION {[1..n -> ArgTokens] : n \in 0..MaxArgs}

HomeValues == {NullStr, <<47, 104>>, Str_tmp \o <<47, 104>>, Rep(HOME_MAX + 1, 120)}
UserValues == {NullStr, <<117>>, Rep(USER_MAX + 1, 120)}

(* lstat() results for the directory path, as the file system may hold them *)
S_IRWXU == 448

DirModes == {S_IRWXU, 488}
FsEntries ==
  {[kind |-> "absent"], [kind |-> "noaccess"]}
  \cup {[kind |-> k, uid |-> u, mode |-> m] :
          k \in {"dir", "file", "symlink"}, u \in {"ruid", "suid", "other"},
          m \in DirModes}
Unobserved == [kind |-> "unobserved"]

(* lines the environment may supply on standard input: "abc...\n", the same
   without the newline (the stream ends there), and answers to the yes/no
   question *)
BatchLens == {0, PWTRUNC, MaxEntryLen, LINEBUF - 2, LINEBUF - 1}
StdinLines ==
  {[data |-> Word(n) \o <<NL>>, eof |-> FALSE] : n \in BatchLens}
  \cup {[data |-> Word(n), eof |-> TRUE] : n \in BatchLens \ {0}}
  \cup {[data |-> <<121, NL>>, eof |-> FALSE], [data |-> <<89>>, eof |-> TRUE],
        [data |-> <<110, NL>>, eof |-> FALSE]}

(* what the operator may type at a getpass() prompt *)
EntryLens == {MINPWLEN - 1, MINPWLEN, PWTRUNC, MaxEntryLen}
Entries == {Word(n) : n \in EntryLens}
GpSize == MaxEntryLen + 1

(* values the random source may deliver *)
(* an unsigned int as its two 16-bit halves *)
U32(n) == [hi |-> n \div 65536, lo |-> n % 65536]

(* values the random source may deliver: random() gives 0..2^31-1, four
   bytes of /dev/urandom give 0..2^32-1 *)
Rand31 == {U32(0), U32(7), U32(12345678), U32(99999999), U32(100000000),
           U32(2147483647)}
Rand32 == Rand31 \cup {[hi |-> 65535, lo |-> 65535]}

VARIABLES
  pc, exitStatus, args,
  read_from_stdin, make_directory, check_strictly,
  alsoView, otp, otpClear, userList, addUser, user, displayname,
  passwdDir, passwdFile,
  passwd1, passwd2, passwd2_ptr, yesno,
  fs, euid, stbuf,
  stdinPending, stdinEOF,
  rp_passwd,
  gp_buf, passwd_copy, ap_result, rounds,
  full, view, buf, bytes, len,
  dpy, props, ul_bytes,
  stored, stderr, printed,
  seen, checked, linesFed, acq, lastEntry

flagVars == <<read_from_stdin, make_directory, check_strictly, alsoView, otp,
              otpClear, userList, addUser, user, displayname>>
pathVars == <<passwdDir, passwdFile>>
secretVars == <<passwd1, passwd2, passwd2_ptr, yesno>>
fsVars == <<fs, euid, stbuf>>
stdinVars == <<stdinPending, stdinEOF, linesFed>>
apVars == <<gp_buf, passwd_copy, ap_result, rounds, lastEntry>>
otpVars == <<full, view, buf, bytes, len, printed>>
xVars == <<dpy, props, ul_bytes>>

vars == <<pc, exitStatus, args, flagVars, pathVars, secretVars, fsVars,
          stdinVars, rp_passwd, apVars, otpVars, xVars, stored, stderr,
          seen, checked, acq>>

Cells(n) == [k \in 1..n |-> Indeterminate]
NoAcq == [input |-> NullStr, warned |-> FALSE, verify |-> NullStr]

Init ==
  /\ pc = "start"
  /\ exitStatus = -1
  /\ args \in ArgLists
  /\ read_from_stdin = 0
  /\ make_directory = 1
  /\ check_strictly = 0
  /\ alsoView = 0
  /\ otp = 0
  /\ otpClear = 0
  /\ userList = 0
  /\ addUser = 0
  /\ user = NullStr
  /\ displayname = "NULL"
  /\ passwdDir = <<>>
  /\ passwdFile = <<>>
  /\ passwd1 = Cells(PWBUF)
  /\ passwd2 = Cells(PWBUF)
  /\ passwd2_ptr = "NULL"
  /\ yesno = Cells(2)
  /\ fs = Unobserved
  /\ euid = "ruid"
  /\ stbuf = Unobserved
  /\ stdinPending = <<>>
  /\ stdinEOF = FALSE
  /\ linesFed = <<>>
  /\ rp_passwd = Cells(LINEBUF)
  /\ gp_buf = Cells(GpSize)
  /\ passwd_copy = Cells(PWBUF)
  /\ ap_result = 0
  /\ rounds = 0
  /\ lastEntry = NoAcq
  /\ full = Indeterminate
  /\ view = U32(0)
  /\ buf = Cells(MAXPWLEN + 1)
  /\ bytes = Cells(MAXPWLEN * 2)
  /\ len = 0
  /\ printed = <<>>
  /\ dpy = "none"
  /\ props = <<>>
  /\ ul_bytes = Cells(MAXUSERLEN + 1)
  /\ stored = <<>>
  /\ stderr = {}
  /\ seen = {}
  /\ checked = {}
  /\ acq = [k \in {1, 2} |-> NoAcq]

(* exit(status) *)
Exit(status) == pc' = "exit" /\ exitStatus' = status


Say(msg) == stderr' = stderr \cup {msg}

(* everything but pc, exitStatus and stderr *)
restVars == <<args, flagVars, pathVars, secretVars, fsVars, stdinVars,
              rp_passwd, apVars, otpVars, xVars, stored, seen, checked, acq>>

(* exit(1) after a message, nothing else touched *)
Die(msg) == Exit(1) /\ Say(msg) /\ UNCHANGED restVars

(* usage(), src lines 394-404 *)
usage == Die("usage")

(* getenv_safe(), src lines 407-421: the value, or no value when it exits *)
getenv_safe(value, maxlen) ==
  IF value = NullStr THEN [ok |-> FALSE, msg |-> "no environment variable"]
  ELSE IF Len(value) > maxlen THEN [ok |-> FALSE, msg |-> "environment variable too long"]
  ELSE [ok |-> TRUE, value |-> value]

(* main, src lines 212-213 *)
MainEnv ==
  /\ pc = "start"
  /\ \E home \in HomeValues :
       LET r == getenv_safe(home, HOME_MAX) IN
       IF r.ok
       THEN /\ passwdDir' = r.value \o Str_dotvnc
            /\ passwdFile' = passwdDir' \o Str_passwd
            /\ pc' = "parse"
            /\ UNCHANGED <<exitStatus, stderr>>
       ELSE /\ Exit(1) /\ Say(r.msg)
            /\ UNCHANGED pathVars
  /\ UNCHANGED <<args, flagVars, secretVars, fsVars, stdinVars, rp_passwd,
                 apVars, otpVars, xVars, stored, seen, checked, acq>>

(* ---- the option loop, src lines 215-283; args is argv[i..argc-1] ---- *)
AtOption(c) ==
  /\ pc = "parse"
  /\ args # <<>>
  /\ CharAt(Head(args), 0) = DASH
  /\ CharAt(Head(args), 1) = c

parseRest == <<secretVars, fsVars, stdinVars, rp_passwd, apVars, otpVars,
               xVars, stored, checked, acq>>

(* src lines 215-217: no argument left, or one that does not start with '-' *)
ParseEnd ==
  /\ pc = "parse"
  /\ (IF args = <<>> THEN TRUE ELSE CharAt(Head(args), 0) # DASH)
  /\ pc' = "mode"
  /\ UNCHANGED <<exitStatus, stderr, restVars>>

(* case 'd', src lines 220-228 *)
ParseD ==
  /\ AtOption(100)
  /\ IF Head(args) # Str_display \/ Len(args) < 2
     THEN usage
     ELSE /\ displayname' = "argv"
          /\ args' = Tail(Tail(args))
          /\ UNCHANGED <<pc, exitStatus, stderr, read_from_stdin, make_directory,
                         check_strictly, alsoView, otp, otpClear, userList,
                         addUser, user, pathVars, seen, parseRest>>

(* case 'c', src lines 230-233 *)
ParseC ==
  /\ AtOption(99)
  /\ make_directory' = 0
  /\ otp' = 1
  /\ otpClear' = 1
  /\ args' = Tail(args)
  /\ seen' = seen \cup {"o"}
  /\ UNCHANGED <<pc, exitStatus, stderr, read_from_stdin, check_strictly,
                 alsoView, userList, addUser, user, displayname, pathVars,
                 parseRest>>

(* case 'o', src lines 235-238 *)
ParseO ==
  /\ AtOption(111)
  /\ make_directory' = 0
  /\ otp' = 1
  /\ args' = Tail(args)
  /\ seen' = seen \cup {"o"}
  /\ UNCHANGED <<pc, exitStatus, stderr, read_from_stdin, check_strictly,
                 alsoView, otpClear, userList, addUser, user, displayname,
                 pathVars, parseRest>>

(* case 'a' and case 'r', src lines 240-258 *)
ParseUser(c, add) ==
  /\ AtOption(c)
  /\ IF Len(args) < 2
     THEN usage
     ELSE /\ user' = args[2]
          /\ make_directory' = 0
          /\ userList' = 1
          /\ addUser' = add
          /\ args' = Tail(Tail(args))
          /\ seen' = seen \cup {"a"}
          /\ UNCHANGED <<pc, exitStatus, stderr, read_from_stdin,
                         check_strictly, alsoView, otp, otpClear, displayname,
                         pathVars, parseRest>>

ParseA == ParseUser(97, 1)

ParseR == ParseUser(114, 0)

(* case 'f', src lines 260-265 *)
ParseF ==
  /\ AtOption(102)
  /\ passwdFile' = Str_stdout
  /\ read_from_stdin' = 1
  /\ make_directory' = 0
  /\ check_strictly' = 0
  /\ args' = Tail(args)
  /\ seen' = seen \cup {"f"}
  /\ UNCHANGED <<pc, exitStatus, stderr, alsoView, otp, otpClear, userList,
                 addUser, user, displayname, passwdDir, parseRest>>

(* case 't', src lines 267-273 *)
ParseT ==
  /\ AtOption(116)
  /\ seen' = seen \cup {"t"}
  /\ \E name \in UserValues :
       LET r == getenv_safe(name, USER_MAX) IN
       IF r.ok
       THEN /\ passwdDir' = Str_tmp \o <<47>> \o r.value \o Str_dashvnc
            /\ passwdFile' = passwdDir' \o Str_passwd
            /\ read_from_stdin' = 0
            /\ make_directory' = 1
            /\ check_strictly' = 1
            /\ args' = Tail(args)
            /\ UNCHANGED <<pc, exitStatus, stderr>>
       ELSE /\ Exit(1) /\ Say(r.msg)
            /\ UNCHANGED <<args, read_from_stdin, make_directory,
                           check_strictly, pathVars>>
  /\ UNCHANGED <<alsoView, otp, otpClear, userList, addUser, user,
                 displayname, parseRest>>

(* case 'v', src lines 275-277 *)
ParseV ==
  /\ AtOption(118)
  /\ alsoView' = 1
  /\ args' = Tail(args)
  /\ UNCHANGED <<pc, exitStatus, stderr, read_from_stdin, make_directory,
                 check_strictly, otp, otpClear, userList, addUser, user,
                 displayname, pathVars, seen, parseRest>>

(* default, src lines 279-281 *)
ParseDefault ==
  /\ pc = "parse"
  /\ args # <<>>
  /\ CharAt(Head(args), 0) = DASH
  /\ CharAt(Head(args), 1) \notin {100, 99, 111, 97, 114, 102, 116, 118}
  /\ usage

(* ---- mode dispatch ---- *)

(* the "-t" test of src lines 291 and 310: !strncmp(passwdDir, "/tmp", 4) *)
DirUnderTmp == StrNEq(passwdDir, Str_tmp, 4)

(* if (otp), src lines 285-302 *)
ModeOTP ==
  /\ pc = "mode"
  /\ otp # 0
  /\ IF read_from_stdin # 0 THEN Die("-f is incompatible with -o")
     ELSE IF DirUnderTmp THEN Die("-t is incompatible with -o")
     ELSE IF userList # 0 THEN Die("-a and -r are incompatible with -o")
     ELSE /\ pc' = "otp_open"
          /\ UNCHANGED <<exitStatus, stderr, restVars>>

(* if (userList), src lines 304-321 *)
ModeUserList ==
  /\ pc = "mode"
  /\ otp = 0
  /\ userList # 0
  /\ IF read_from_stdin # 0 THEN Die("-f is incompatible with -a and -r")
     ELSE IF DirUnderTmp THEN Die("-t is incompatible with -a and -r")
     ELSE IF otp # 0 THEN Die("-o is incompatible with -a and -r")
     ELSE /\ pc' = "ul_check"
          /\ UNCHANGED <<exitStatus, stderr, restVars>>

(* if (i != argc), src lines 323-336 *)
ModeFile ==
  /\ pc = "mode"
  /\ otp = 0
  /\ userList = 0
  /\ UNCHANGED <<alsoView, otp, otpClear, userList, addUser, user, displayname,
                 passwdDir, secretVars, fsVars, stdinVars, rp_passwd, apVars,
                 otpVars, xVars, stored, seen, checked, acq>>
  /\ IF args # <<>>
     THEN IF Len(Head(args)) > PASSWDFILE_SIZE - 1
          THEN /\ Exit(1) /\ Say("file name too long")
               /\ UNCHANGED <<args, read_from_stdin, make_directory,
                              check_strictly, passwdFile>>
          ELSE /\ passwdFile' = Head(args)
               /\ args' = <<>>
               /\ IF read_from_stdin # 0
                  THEN /\ Exit(1) /\ Say("cannot specify filename with -f")
                       /\ UNCHANGED <<read_from_stdin, make_directory,
                                      check_strictly>>
                  ELSE /\ read_from_stdin' = 0
                       /\ make_directory' = 0
                       /\ check_strictly' = 0
                       /\ pc' = "mkdir"
                       /\ UNCHANGED <<exitStatus, stderr>>
     ELSE /\ pc' = "mkdir"
          /\ UNCHANGED <<exitStatus, stderr, args, read_from_stdin,
                         make_directory, check_strictly, passwdFile>>

(* a main that never calls mkdir_and_check *)
MakeDirectory_Skipped ==
  /\ pc = "mkdir"
  /\ pc' = (IF read_from_stdin # 0 THEN "read1" ELSE "ask1")
  /\ passwd2_ptr' = "NULL"
  /\ UNCHANGED <<exitStatus, stderr, args, flagVars, pathVars, passwd1, passwd2,
                 yesno, fsVars, stdinVars, rp_passwd, apVars, otpVars, xVars,
                 stored, seen, checked, acq>>

(* if (make_directory), src lines 338-343 *)
MakeDirectory ==
  /\ pc = "mkdir"
  /\ IF make_directory # 0
     THEN pc' = "mc_lstat" /\ Say("Using password file")
     ELSE pc' = (IF read_from_stdin # 0 THEN "read1" ELSE "ask1")
          /\ UNCHANGED stderr
  /\ passwd2_ptr' = "NULL"
  /\ UNCHANGED <<exitStatus, args, flagVars, pathVars, passwd1, passwd2, yesno,
                 fsVars, stdinVars, rp_passwd, apVars, otpVars, xVars, stored,
                 seen, checked, acq>>

(* ---- mkdir_and_check(passwdDir, check_strictly), src lines 429-462 ---- *)

(* lstat(): 0 and the entry, or -1 and errno *)
lstat(entry) ==
  CASE entry.kind = "absent" -> [ret |-> -1, errno |-> "ENOENT"]
    [] entry.kind = "noaccess" -> [ret |-> -1, errno |-> "EACCES"]
    [] OTHER -> [ret |-> 0, st |-> entry]

(* S_ISDIR(st_mode) *)
S_ISDIR(st) == st.kind = "dir"

(* (S_IRWXG | S_IRWXO) & st_mode *)
GroupOtherBits(st) == st.mode % 64

(* an ownership test against the effective user id *)
BadOwner_Effective(st) == st.uid # euid

(* st_uid != getuid(): getuid() is the real user id *)
BadOwner(st) == st.uid # "ruid"

(* a creation that leaves the directory open to group and others *)
mkdir_GroupOther(owner, mode) == [kind |-> "dir", uid |-> owner, mode |-> mode + 40]

(* mkdir(dirname, mode), src line 439: what a successful call leaves at the
   path, owned by the effective user *)
mkdir(owner, mode) == [kind |-> "dir", uid |-> owner, mode |-> mode]

mcRest == <<args, flagVars, pathVars, secretVars, stdinVars, rp_passwd, apVars,
            otpVars, xVars, stored, seen, acq>>

(* the first inspection and the creation, src lines 433-444.  The state of
   the path and the effective user id are observed here. *)
McLstat ==
  /\ pc = "mc_lstat"
  /\ \E entry \in FsEntries, e \in {"ruid", "suid"} :
       /\ euid' = e
       /\ LET r == lstat(entry) IN
          IF r.ret # 0
          THEN IF r.errno # "ENOENT"
               THEN /\ Exit(1) /\ Say("lstat() failed")
                    /\ fs' = entry
               ELSE \E made \in BOOLEAN :
                      IF made
                      THEN /\ fs' = mkdir(e, S_IRWXU)
                           /\ pc' = "mc_check"
                           /\ Say("VNC directory does not exist, creating.")
                           /\ UNCHANGED exitStatus
                      ELSE /\ fs' = entry
                           /\ Exit(1)
                           /\ stderr' = stderr \cup
                                {"VNC directory does not exist, creating.",
                                 "Error creating directory"}
          ELSE /\ fs' = entry
               /\ pc' = "mc_check"
               /\ UNCHANGED <<exitStatus, stderr>>
  /\ UNCHANGED <<stbuf, checked, mcRest>>

(* the checks proper, src lines 450-461, on what the second lstat() gave *)
DirCheck(st, be_strict) ==
  IF ~S_ISDIR(st) THEN "is not a directory"
  ELSE IF BadOwner(st) THEN "bad ownership"
  ELSE IF be_strict # 0 /\ GroupOtherBits(st) # 0 THEN "bad access modes"
  ELSE "ok"

(* the second inspection and the checks, src lines 446-462; the path may
   have vanished in between *)
McCheck ==
  /\ pc = "mc_check"
  /\ \E entry \in {fs, [kind |-> "absent"]} :
       /\ fs' = entry
       /\ LET r == lstat(entry) IN
          IF r.ret # 0
          THEN /\ Exit(1) /\ Say("Error in lstat()")
               /\ UNCHANGED <<stbuf, checked>>
          ELSE /\ stbuf' = r.st
               /\ LET verdict == DirCheck(r.st, check_strictly) IN
                  IF verdict # "ok"
                  THEN /\ Exit(1) /\ Say(verdict)
                       /\ UNCHANGED checked
                  ELSE /\ checked' = checked \cup {passwdDir}
                       /\ pc' = (IF read_from_stdin # 0 THEN "read1" ELSE "ask1")
                       /\ UNCHANGED <<exitStatus, stderr>>
  /\ UNCHANGED <<euid, mcRest>>

(* ---- C strings in character arrays ---- *)
Min(a, b) == IF a < b THEN a ELSE b

(* strlen() of an array that holds a terminated string *)
strlen(b) == CHOOSE n \in 0..(Len(b) - 1) :
               b[n + 1] = 0 /\ \A k \in 1..n : b[k] # 0

(* strlen() of an array that may never have been written: an indeterminate
   cell may or may not read as the terminator, and a scan that finds none
   leaves the array (n = Len(b): the memset that follows covers it all) *)
StrLens(b) == {n \in 0..Len(b) :
                 /\ \A k \in 1..n : b[k] # 0
                 /\ n < Len(b) => b[n + 1] \in {0, Indeterminate}}

(* memset(b, 0, strlen(b)): a cell is zero when every possible length
   covers it, indeterminate when only some do, and kept otherwise *)
ZeroString(b) == [k \in 1..Len(b) |->
                    IF \A n \in StrLens(b) : k <= n THEN 0
                    ELSE IF \E n \in StrLens(b) : k <= n THEN Indeterminate
                    ELSE b[k]]

(* the string an array holds *)
CStr(b) == SubSeq(b, 1, strlen(b))

(* strcpy(b, s): the bytes of s and its terminator; the rest of b is kept *)
strcpy(b, s) == [k \in 1..Len(b) |->
                   IF k <= Len(s) THEN s[k]
                   ELSE IF k = Len(s) + 1 THEN 0 ELSE b[k]]

(* memset(b + off, 0, n) *)
memset0(b, off, n) == [k \in 1..Len(b) |->
                         IF k > off /\ k <= off + n THEN 0 ELSE b[k]]

(* a truncation that cuts one byte too early *)
Truncate_OneShort(b) ==
  IF strlen(b) > PWTRUNC
  THEN memset0(b, PWTRUNC - 1, strlen(b) - PWTRUNC + 1) ELSE b

(* if (strlen(p) > 8) memset(p + 8, 0, strlen(p) - 8), src lines 487-488,
   521-522, 529-530 *)
Truncate(b) ==
  IF strlen(b) > PWTRUNC THEN memset0(b, PWTRUNC, strlen(b) - PWTRUNC) ELSE b

(* ---- standard input ---- *)

(* what the next read finds: the unread rest of a line, the end of the
   stream, or a fresh line *)
StdinNext ==
  IF stdinPending # <<>>
  THEN {[data |-> stdinPending, eof |-> stdinEOF, fed |-> 0]}
  ELSE IF stdinEOF
  THEN {[data |-> <<>>, eof |-> TRUE, fed |-> 0]}
  ELSE {[data |-> l.data, eof |-> l.eof, fed |-> 1] : l \in StdinLines}
       \cup {[data |-> <<>>, eof |-> TRUE, fed |-> 0]}

(* fgets(b, size, stdin): at most size-1 bytes of the line *)
fgets(size, data) == SubSeq(data, 1, Min(size - 1, Len(data)))

Consume(src, chunk) ==
  /\ stdinPending' = SubSeq(src.data, Len(chunk) + 1, Len(src.data))
  /\ stdinEOF' = src.eof
  /\ linesFed' = IF src.fed = 1 THEN Append(linesFed, src.data) ELSE linesFed

(* strchr(s, '\n'): index of the first newline, 0 when there is none *)
NewlineAt(s) ==
  IF \E k \in 1..Len(s) : s[k] = NL
  THEN CHOOSE k \in 1..Len(s) : s[k] = NL /\ \A j \in 1..(k - 1) : s[j] # NL
  ELSE 0

(* ---- read_password(result), src lines 472-497, on the bytes fgets found *)
read_password(result, data) ==
  LET chunk == fgets(LINEBUF, data)
      b1 == strcpy(rp_passwd, chunk)
      nl == NewlineAt(chunk)
      b2 == IF nl # 0 THEN [b1 EXCEPT ![nl] = 0] ELSE b1
      b3 == Truncate(b2)
  IN IF chunk = <<>>
     THEN [ret |-> 0, result |-> result, passwd |-> rp_passwd,
           warned |-> FALSE, input |-> NullStr, chunk |-> chunk]
     ELSE [ret |-> 1,
           result |-> strcpy(result, CStr(b3)),
           passwd |-> memset0(b3, 0, strlen(b3)),
           warned |-> strlen(b2) > PWTRUNC,
           input |-> CStr(b2),
           chunk |-> chunk]

WarnIf(r) == IF r.warned THEN {"Warning: password truncated"} ELSE {}

rdRest == <<args, flagVars, pathVars, yesno, fsVars, apVars, otpVars, xVars,
            stored, seen, checked>>

(* main, src lines 348-351 *)
ReadPrimary ==
  /\ pc = "read1"
  /\ \E src \in StdinNext :
       LET r == read_password(passwd1, src.data) IN
       /\ Consume(src, r.chunk)
       /\ rp_passwd' = r.passwd
       /\ passwd1' = r.result
       /\ IF r.ret = 0
          THEN /\ Exit(1)
               /\ Say("Could not read password")
               /\ UNCHANGED acq
          ELSE /\ pc' = "read2"
               /\ stderr' = stderr \cup WarnIf(r)
               /\ acq' = [acq EXCEPT ![1] = [input |-> r.input, warned |-> r.warned, verify |-> NullStr]]
               /\ UNCHANGED exitStatus
  /\ UNCHANGED <<passwd2, passwd2_ptr, rdRest>>

(* main, src lines 352-354 *)
ReadSecondary ==
  /\ pc = "read2"
  /\ \E src \in StdinNext :
       LET r == read_password(passwd2, src.data) IN
       /\ Consume(src, r.chunk)
       /\ rp_passwd' = r.passwd
       /\ passwd2' = r.result
       /\ stderr' = stderr \cup WarnIf(r)
       /\ IF r.ret # 0
          THEN /\ passwd2_ptr' = "passwd2"
               /\ acq' = [acq EXCEPT ![2] = [input |-> r.input, warned |-> r.warned, verify |-> NullStr]]
          ELSE UNCHANGED <<passwd2_ptr, acq>>
  /\ pc' = "store"
  /\ UNCHANGED <<exitStatus, passwd1, rdRest>>

(* ---- interactive acquisition ---- *)

askRest == <<args, read_from_stdin, make_directory, check_strictly, otp,
             otpClear, userList, addUser, user, displayname, pathVars, fsVars,
             rp_passwd, otpVars, xVars, stored, seen, checked>>

(* main, src line 359: the call of ask_password(passwd1) *)
AskPrimary ==
  /\ pc = "ask1"
  /\ pc' = "ap_password"
  /\ ap_result' = 1
  /\ rounds' = 0
  /\ UNCHANGED <<exitStatus, stderr, alsoView, secretVars, stdinVars, gp_buf,
                 passwd_copy, lastEntry, acq, askRest>>

(* strchr("Yy", c) != NULL: the terminator of "Yy" matches c = 0 too *)
InYy(c) == c \in {89, 121, 0}

(* what fgets(yesno, 2, stdin) may find, src line 370: a short line of
   standard input, the end of the stream, or a line that starts with a NUL
   byte *)
YesNoNext ==
  {x \in StdinNext : Len(x.data) <= 2}
  \cup (IF stdinPending = <<>> /\ ~stdinEOF
        THEN {[data |-> <<0, NL>>, eof |-> FALSE, fed |-> 1]} ELSE {})

(* main, src lines 363-374: the view-only question and the second call *)
AskViewOnly ==
  /\ pc = "yesno"
  /\ IF alsoView # 0
     THEN /\ Say("Enter the view-only password")
          /\ UNCHANGED <<alsoView, yesno, stdinVars>>
     ELSE /\ Say("Would you like to enter a view-only password (y/n)?")
          /\ \E src \in YesNoNext :
               LET chunk == fgets(2, src.data) IN
               /\ Consume(src, chunk)
               /\ yesno' = IF chunk = <<>> THEN yesno ELSE strcpy(yesno, chunk)
               /\ alsoView' = IF chunk # <<>> /\ InYy(yesno'[1]) THEN 1 ELSE alsoView
  /\ IF alsoView' # 0
     THEN pc' = "ap_password" /\ ap_result' = 2 /\ rounds' = 0
     ELSE pc' = "store" /\ UNCHANGED <<ap_result, rounds>>
  /\ UNCHANGED <<exitStatus, passwd1, passwd2, passwd2_ptr, gp_buf, passwd_copy,
                 lastEntry, acq, askRest>>

(* getpass(): its static buffer holds the entry and the terminator; what
   lies behind the terminator is unspecified *)
getpass(e) == strcpy(Cells(GpSize), e)

(* return 0 from ask_password: main exits after the first call (src line
   360) and goes on to the storage call after the second (src line 374) *)
ApFail(msg) ==
  /\ Say(msg)
  /\ IF ap_result = 1 THEN Exit(1)
     ELSE pc' = "store" /\ UNCHANGED exitStatus

(* ask_password, src lines 512-526: the "Password: " prompt *)
ApPassword ==
  /\ pc = "ap_password"
  /\ \E e \in Entries \cup {NullStr} :
       IF e = NullStr
       THEN /\ ApFail("Can't get password: not a tty?")
            /\ UNCHANGED <<gp_buf, passwd_copy, lastEntry>>
       ELSE LET g1 == getpass(e)
                g2 == Truncate(g1)
            IN IF strlen(g1) < MINPWLEN
               THEN /\ ApFail("Password too short")
                    /\ gp_buf' = g1
                    /\ lastEntry' = [input |-> e, warned |-> FALSE, verify |-> NullStr]
                    /\ UNCHANGED passwd_copy
               ELSE /\ gp_buf' = g2
                    /\ passwd_copy' = strcpy(passwd_copy, CStr(g2))
                    /\ lastEntry' = [input |-> e, warned |-> strlen(g1) > PWTRUNC,
                                      verify |-> NullStr]
                    /\ stderr' = stderr \cup
                         (IF strlen(g1) > PWTRUNC
                          THEN {"Warning: password truncated"} ELSE {})
                    /\ pc' = "ap_verify"
                    /\ UNCHANGED exitStatus
  /\ UNCHANGED <<alsoView, secretVars, stdinVars, ap_result, rounds, acq, askRest>>

(* a comparison of the first MINPWLEN bytes only *)
PasswordsMatch_Prefix(g) == StrNEq(CStr(g), CStr(passwd_copy), MINPWLEN)

(* strcmp(passwd, passwd_copy) == 0, src line 532 *)
PasswordsMatch(g) == CStr(g) = CStr(passwd_copy)

(* ask_password, src lines 528-543: the "Verify: " prompt, the comparison,
   and on a match the copy to result, the zeroing and the return to main *)
ApVerify ==
  /\ pc = "ap_verify"
  /\ \E e \in Entries \cup {NullStr} :
       IF e = NullStr
       THEN (* strlen(NULL): the process dies on SIGSEGV *)
            /\ Exit(139)
            /\ UNCHANGED <<stderr, gp_buf, passwd_copy, passwd1, passwd2,
                           passwd2_ptr, rounds, acq, lastEntry>>
       ELSE LET g2 == Truncate(getpass(e)) IN
            IF PasswordsMatch(g2)
            THEN /\ gp_buf' = memset0(g2, 0, strlen(g2))
                 /\ passwd_copy' = memset0(passwd_copy, 0, strlen(passwd_copy))
                 /\ acq' = [acq EXCEPT ![ap_result] = [lastEntry EXCEPT !.verify = e]]
                 /\ lastEntry' = NoAcq
                 /\ rounds' = 0
                 /\ IF ap_result = 1
                    THEN /\ passwd1' = strcpy(passwd1, CStr(g2))
                         /\ pc' = "yesno"
                         /\ UNCHANGED <<passwd2, passwd2_ptr>>
                    ELSE /\ passwd2' = strcpy(passwd2, CStr(g2))
                         /\ passwd2_ptr' = "passwd2"
                         /\ pc' = "store"
                         /\ UNCHANGED passwd1
                 /\ UNCHANGED <<exitStatus, stderr>>
            ELSE /\ rounds < MaxRounds
                 /\ rounds' = rounds + 1
                 /\ gp_buf' = g2
                 /\ Say("Passwords do not match. Please try again.")
                 /\ pc' = "ap_password"
                 /\ UNCHANGED <<exitStatus, passwd_copy, passwd1, passwd2,
                                passwd2_ptr, acq, lastEntry>>
  /\ UNCHANGED <<alsoView, yesno, stdinVars, ap_result, askRest>>

(* ---- storage, src lines 379-391 ---- *)
stRest == <<args, flagVars, pathVars, yesno, fsVars, stdinVars, rp_passwd,
            apVars, otpVars, xVars, seen, checked, acq>>

(* what vncEncryptAndStorePasswd2(passwd1, passwd2_ptr, passwdFile) is given *)
StoreCall ==
  [passwd |-> CStr(passwd1),
   passwdViewOnly |-> IF passwd2_ptr = "NULL" THEN NullStr ELSE CStr(passwd2),
   fname |-> passwdFile]

(* memset(passwd1, 0, strlen(passwd1)); memset(passwd2, 0, strlen(passwd2)),
   src lines 381-382 and 388-389 *)
ZeroPasswords ==
  /\ passwd1' = ZeroString(passwd1)
  /\ passwd2' = ZeroString(passwd2)

(* main, src lines 379-391: the storage call, the zeroing, the exit *)
Store ==
  /\ pc = "store"
  /\ stored' = Append(stored, StoreCall)
  /\ ZeroPasswords
  /\ \E ok \in BOOLEAN :
       IF ok THEN Exit(0) /\ UNCHANGED stderr
       ELSE Exit(1) /\ Say("Cannot write password file")
  /\ UNCHANGED <<passwd2_ptr, stRest>>

(* ---- DoOTP(), src lines 68-151 ---- *)
(* v / 10 and v % 10 of an unsigned int, by long division on the halves *)
Div10(v) == [hi |-> v.hi \div 10, lo |-> ((v.hi % 10) * 65536 + v.lo) \div 10]
Mod10(v) == ((v.hi % 10) * 65536 + v.lo) % 10

RECURSIVE Dec(_)
(* the decimal digits of v *)
Dec(v) == IF v.hi = 0 /\ v.lo < 10 THEN <<48 + v.lo>>
          ELSE Dec(Div10(v)) \o <<48 + Mod10(v)>>

(* "%u": no padding *)
Fmt08u_NoPad(v) == Dec(v)

(* "%08u": zero-padded to at least eight digits *)
Fmt08u(v) ==
  LET d == Dec(v) IN
  IF Len(d) >= OTPWIDTH THEN d ELSE Rep(OTPWIDTH - Len(d), 48) \o d

(* an snprintf that keeps the last size-1 digits instead of the first *)
snprintf_KeepTail(b, size, v) ==
  LET s == Fmt08u(v) IN strcpy(b, SubSeq(s, Len(s) - Min(Len(s), size - 1) + 1, Len(s)))

(* snprintf(b, size, "%08u", v): at most size-1 bytes and the terminator *)
snprintf(b, size, v) ==
  LET s == Fmt08u(v) IN strcpy(b, SubSeq(s, 1, Min(Len(s), size - 1)))

(* memcpy(d + off, src, n) *)
memcpy(d, off, src, n) == [k \in 1..Len(d) |->
                             IF k > off /\ k <= off + n THEN src[k - off] ELSE d[k]]

(* "%.*s" with precision n on b + off: up to n bytes, stopping at a NUL *)
PrintPrec(b, off, n) ==
  LET seg == SubSeq(b, off + 1, off + n)
      z == {k \in 1..Len(seg) : seg[k] = 0}
  IN IF z = {} THEN seg
     ELSE SubSeq(seg, 1, (CHOOSE k \in z : \A j \in z : k <= j) - 1)

xRest == <<args, flagVars, pathVars, secretVars, fsVars, stdinVars, rp_passwd,
           apVars, stored, seen, checked, acq>>

(* XOpenDisplay(), src lines 81-85 *)
OtpOpen ==
  /\ pc = "otp_open"
  /\ \E opened \in BOOLEAN :
       IF opened
       THEN dpy' = "open" /\ pc' = "otp_intern" /\ UNCHANGED <<exitStatus, stderr>>
       ELSE Exit(1) /\ Say("unable to open display") /\ UNCHANGED dpy
  /\ UNCHANGED <<props, ul_bytes, otpVars, xRest>>

(* XInternAtom(dpy, "VNC_OTP", True), src lines 87-92 *)
OtpIntern ==
  /\ pc = "otp_intern"
  /\ \E found \in BOOLEAN :
       IF found
       THEN pc' = "otp_generate" /\ UNCHANGED <<exitStatus, stderr>>
       ELSE Exit(1) /\ Say("The X display does not support VNC one-time passwords")
  /\ UNCHANGED <<dpy, props, ul_bytes, otpVars, xRest>>

(* src lines 124-135, on the values drawn *)
OtpFormat(f, v) ==
  LET b1 == snprintf(buf, MAXPWLEN + 1, f)
      y1 == memcpy(bytes, 0, b1, MAXPWLEN)
      p1 == <<[label |-> "Full control", text |-> PrintPrec(y1, 0, MAXPWLEN)]>>
      b2 == snprintf(b1, MAXPWLEN + 1, v)
      y2 == memcpy(y1, MAXPWLEN, b2, MAXPWLEN)
      p2 == <<[label |-> "View-only", text |-> PrintPrec(y2, MAXPWLEN, MAXPWLEN)]>>
  IN IF alsoView # 0
     THEN [buf |-> b2, bytes |-> y2, len |-> MAXPWLEN * 2, printed |-> p1 \o p2]
     ELSE [buf |-> b1, bytes |-> y1, len |-> MAXPWLEN, printed |-> p1]

(* src lines 94-136: the clear case, or the draw from /dev/urandom
   (UseDevUrandom) or from random(), and the formatting *)
OtpGenerate ==
  /\ pc = "otp_generate"
  /\ IF otpClear # 0
     THEN /\ len' = 0
          /\ pc' = "otp_change"
          /\ UNCHANGED <<exitStatus, stderr, full, view, buf, bytes, printed>>
     ELSE \E source \in {"urandom", "open fails", "read fails", "random"} :
            IF source = "open fails"
            THEN /\ Exit(1) /\ Say("/dev/urandom")
                 /\ UNCHANGED otpVars
            ELSE IF source = "read fails"
            THEN /\ Exit(1) /\ Say("Could not read random number")
                 /\ UNCHANGED otpVars
            ELSE \E f \in (IF source = "urandom" THEN Rand32 ELSE Rand31),
                    v \in (IF alsoView = 0 THEN {view}
                           ELSE IF source = "urandom" THEN Rand32 ELSE Rand31) :
                   LET r == OtpFormat(f, v) IN
                   /\ full' = f
                   /\ view' = v
                   /\ buf' = r.buf
                   /\ bytes' = r.bytes
                   /\ len' = r.len
                   /\ printed' = printed \o r.printed
                   /\ stderr' = stderr \cup {"one-time password"}
                   /\ pc' = "otp_change"
                   /\ UNCHANGED exitStatus
  /\ UNCHANGED <<dpy, props, ul_bytes, xRest>>

(* XChangeProperty(..., PropModeReplace, bytes, len), src lines 146-147 *)
OtpChange ==
  /\ pc = "otp_change"
  /\ props' = Append(props, [name |-> "VNC_OTP", mode |-> "PropModeReplace",
                             data |-> SubSeq(bytes, 1, len)])
  /\ pc' = "otp_finish"
  /\ UNCHANGED <<exitStatus, stderr, dpy, ul_bytes, otpVars, xRest>>

(* a main that goes on to the password file after DoOTP has returned *)
OtpFinish_FallsThrough ==
  /\ pc = "otp_finish"
  /\ bytes' = memset0(bytes, 0, Len(bytes))
  /\ dpy' = "closed"
  /\ pc' = "mkdir"
  /\ UNCHANGED <<exitStatus, stderr, props, ul_bytes, full, view, buf, len,
                 printed, xRest>>

(* memset(bytes, 0, sizeof(bytes)); XCloseDisplay(dpy); return 0,
   src lines 148-150, and exit(DoOTP()), src line 301 *)
OtpFinish ==
  /\ pc = "otp_finish"
  /\ bytes' = memset0(bytes, 0, Len(bytes))
  /\ dpy' = "closed"
  /\ Exit(0)
  /\ UNCHANGED <<stderr, props, ul_bytes, full, view, buf, len, printed, xRest>>

(* ---- DoUserList(), src lines 160-196 ---- *)
RECURSIVE BitOr(_, _)
(* a | b *)
BitOr(a, b) ==
  IF a = 0 THEN b
  ELSE IF b = 0 THEN a
  ELSE (IF a % 2 = 1 \/ b % 2 = 1 THEN 1 ELSE 0) + 2 * BitOr(a \div 2, b \div 2)

(* a length test that lets a name of MAXUSERLEN + 1 bytes through *)
UlCheck_OffByOne ==
  /\ pc = "ul_check"
  /\ IF user = NullStr \/ Len(user) = 0 THEN Die("missing the username!")
     ELSE IF Len(user) > MAXUSERLEN + 1 THEN Die("username is too large")
     ELSE pc' = "ul_open" /\ UNCHANGED <<exitStatus, stderr, restVars>>

(* src lines 167-175 *)
UlCheck ==
  /\ pc = "ul_check"
  /\ IF user = NullStr \/ Len(user) = 0 THEN Die("missing the username!")
     ELSE IF Len(user) > MAXUSERLEN THEN Die("username is too large")
     ELSE pc' = "ul_open" /\ UNCHANGED <<exitStatus, stderr, restVars>>

(* XOpenDisplay(), src lines 177-181 *)
UlOpen ==
  /\ pc = "ul_open"
  /\ \E opened \in BOOLEAN :
       IF opened
       THEN dpy' = "open" /\ pc' = "ul_intern" /\ UNCHANGED <<exitStatus, stderr>>
       ELSE Exit(1) /\ Say("unable to open display") /\ UNCHANGED dpy
  /\ UNCHANGED <<props, ul_bytes, otpVars, xRest>>

(* XInternAtom(dpy, "VNC_ACL", True), src lines 183-188 *)
UlIntern ==
  /\ pc = "ul_intern"
  /\ \E found \in BOOLEAN :
       IF found
       THEN pc' = "ul_change" /\ UNCHANGED <<exitStatus, stderr>>
       ELSE Exit(1) /\ Say("The X server does not support VNC user access control lists")
  /\ UNCHANGED <<dpy, props, ul_bytes, otpVars, xRest>>

(* a flag byte with the view-only bit in the wrong place *)
AclFlagByte_Bit1 == BitOr(addUser, IF alsoView # 0 THEN 2 ELSE 0)

(* bytes[0] = addUser | (alsoView ? 0x10 : 0x00), src line 190 *)
AclFlagByte == BitOr(addUser, IF alsoView # 0 THEN VIEWBIT ELSE 0)

(* src lines 190-195 *)
UlChange ==
  /\ pc = "ul_change"
  /\ ul_bytes' = memcpy([ul_bytes EXCEPT ![1] = AclFlagByte], 1, user, Len(user))
  /\ props' = Append(props, [name |-> "VNC_ACL", mode |-> "PropModeReplace",
                             data |-> SubSeq(ul_bytes', 1, Len(user) + 1)])
  /\ dpy' = "closed"
  /\ Exit(0)
  /\ UNCHANGED <<stderr, otpVars, xRest>>

Next ==
  \/ MainEnv
  \/ ParseEnd \/ ParseD \/ ParseC \/ ParseO \/ ParseA \/ ParseR
  \/ ParseF \/ ParseT \/ ParseV \/ ParseDefault
  \/ ModeOTP \/ ModeUserList \/ ModeFile
  \/ MakeDirectory \/ McLstat \/ McCheck
  \/ ReadPrimary \/ ReadSecondary
  \/ AskPrimary \/ AskViewOnly \/ ApPassword \/ ApVerify
  \/ Store
  \/ OtpOpen \/ OtpIntern \/ OtpGenerate \/ OtpChange \/ OtpFinish
  \/ UlCheck \/ UlOpen \/ UlIntern \/ UlChange

Spec == Init /\ [][Next]_vars

(***************************************************************************)
(* Properties                                                              *)
(***************************************************************************)

(* the directory that contains a file: the path up to its last '/', "."
   when there is none *)
DirName(path) ==
  LET sl == {k \in 1..Len(path) : path[k] = 47} IN
  IF sl = {} THEN <<46>>
  ELSE LET last == CHOOSE k \in sl : \A j \in sl : j <= k IN
       IF last = 1 THEN <<47>> ELSE SubSeq(path, 1, last - 1)

(* no cell of the array holds a byte of a secret *)
NoSecret(b) == \A k \in 1..Len(b) : b[k] \in {0, Indeterminate}

(* the first eight bytes *)
Take8(s) == SubSeq(s, 1, Min(Len(s), 8))

AllDigits(s) == \A k \in 1..Len(s) : s[k] \in 48..57

(* C1, as stated: whenever the storage collaborator has been called with a
   file path (anything but "-", which is standard output), mkdir_and_check
   has passed earlier in the run on the directory containing that file. *)
C1_EveryDestinationChecked ==
  \A k \in 1..Len(stored) :
    stored[k].fname # Str_stdout => DirName(stored[k].fname) \in checked

(* C1, amended: when the storage collaborator is called with the default
   path or the -t path (make_directory still set: no positional FILE, -f not
   in effect), mkdir_and_check has passed on passwdDir, which contains the
   file; in the other runs it is called with no directory check at all. *)
C1_DefaultAndTmpChecked ==
  \A k \in 1..Len(stored) :
    /\ make_directory # 0 =>
         /\ DirName(stored[k].fname) = passwdDir
         /\ passwdDir \in checked
    /\ make_directory = 0 => checked = {}

C1_Witness ==
  /\ stored # <<>>
  /\ check_strictly # 0
  /\ passwdDir \in checked
  /\ DirName(stored[1].fname) = passwdDir

(* C2: once the run is past the storage call, no array that held a secret
   (passwd1, passwd2, passwd_copy, the line buffer of read_password) holds a
   byte of it any more. *)
C2_SecretsZeroAfterStore ==
  (pc = "exit" /\ stored # <<>>) =>
    /\ NoSecret(passwd1)
    /\ NoSecret(passwd2)
    /\ NoSecret(passwd_copy)
    /\ NoSecret(rp_passwd)

AcquisitionFailed ==
  stderr \cap {"Can't get password: not a tty?", "Password too short",
               "Could not read password"} # {}

(* C3: when password acquisition has failed, the first attempt that
   ask_password kept in passwd_copy has been overwritten with zeros. *)
C3_FailureLeavesNoSecret ==
  AcquisitionFailed => NoSecret(passwd_copy)

(* C4: an entry shorter than 6 characters at any prompt is fatal: the
   storage collaborator is never called and the exit status is not 0. *)
C4_ShortEntryIsFatal ==
  "Password too short" \in stderr =>
    /\ stored = <<>>
    /\ pc = "exit" => exitStatus # 0

(* C5: what an acquisition places in its result buffer, and what the
   storage collaborator is handed, is the first 8 bytes of the input (the
   line read in batch mode, the entry at the "Password: " prompt in
   interactive mode); the truncation warning is printed exactly when that
   input is longer than 8 bytes. *)
C5_TruncatedToEight ==
  /\ \A k \in {1, 2} :
       acq[k].input # NullStr =>
         /\ acq[k].warned = (Len(acq[k].input) > 8)
         /\ acq[k].warned => "Warning: password truncated" \in stderr
         /\ pc # "exit" =>
              CStr(IF k = 1 THEN passwd1 ELSE passwd2) = Take8(acq[k].input)
  /\ \A n \in 1..Len(stored) :
       /\ stored[n].passwd = Take8(acq[1].input)
       /\ stored[n].passwdViewOnly =
            (IF acq[2].input = NullStr THEN NullStr ELSE Take8(acq[2].input))

C5_Witness ==
  /\ stored # <<>>
  /\ read_from_stdin = 0
  /\ acq[1].warned
  /\ stored[1].passwd = Word(8)
  /\ acq[2].input = Word(MINPWLEN)
  /\ stored[1].passwdViewOnly = Word(MINPWLEN)

(* a line without its newline *)
Chomp(line) ==
  IF line # <<>> /\ line[Len(line)] = NL THEN SubSeq(line, 1, Len(line) - 1)
  ELSE line

(* C6: in batch mode the primary secret comes from the first line and the
   secondary from the second line only; no data at all is fatal; a stream
   of one line, of any length, gives a primary secret and no secondary. *)
C6_BatchLines ==
  (read_from_stdin # 0 /\ pc = "exit") =>
    /\ linesFed = <<>> => (exitStatus # 0 /\ stored = <<>>)
    /\ linesFed # <<>> =>
         /\ Len(stored) = 1
         /\ stored[1].passwd = Take8(Chomp(linesFed[1]))
         /\ stored[1].passwdViewOnly =
              (IF Len(linesFed) = 1 THEN NullStr
               ELSE Take8(Chomp(linesFed[2])))

(* C7: a command line with flags of two or more of the groups {-f}, {-t},
   {-o,-c}, {-a,-r} never gets past the mode checks: no password is read,
   no directory inspected or made, nothing stored, no display opened, and
   the exit status is not 0. *)
C7_ExclusiveModes ==
  Cardinality(seen) >= 2 =>
    /\ pc \in {"parse", "mode", "exit"}
    /\ pc = "exit" => exitStatus # 0
    /\ stored = <<>> /\ checked = {} /\ fs = Unobserved /\ dpy = "none"
    /\ linesFed = <<>> /\ lastEntry = NoAcq

(* C8: after the inspection of mkdir_and_check: something that is not a
   directory fails; a directory that is not the invoking user's fails,
   whatever its mode and the strict flag; the user's own directory with a
   group or other bit fails under strict and passes otherwise. *)
McFailed == passwdDir \notin checked /\ pc = "exit" /\ exitStatus = 1 /\ stored = <<>>

C8_DirectoryChecks ==
  stbuf # Unobserved =>
    /\ stbuf.kind # "dir" => McFailed
    /\ stbuf.uid # "ruid" => McFailed
    /\ (stbuf.kind = "dir" /\ stbuf.uid = "ruid" /\ stbuf.mode % 64 # 0) =>
         IF check_strictly # 0 THEN McFailed ELSE passwdDir \in checked

C8_Witness ==
  /\ stbuf # Unobserved
  /\ stbuf.kind = "dir" /\ stbuf.uid = "ruid" /\ stbuf.mode % 64 # 0
  /\ check_strictly = 0
  /\ passwdDir \in checked
  /\ "VNC directory does not exist, creating." \notin stderr

(* C9: the payload written to VNC_OTP is empty in clear mode, 8 bytes for a
   primary OTP alone and 16 with a secondary; each half is ASCII digits and
   is what was printed; in clear mode nothing is drawn or printed. *)
C9_OtpPayload ==
  /\ otpClear # 0 => (printed = <<>> /\ full = Indeterminate /\ view = U32(0))
  /\ \A k \in 1..Len(props) :
       props[k].name = "VNC_OTP" =>
         LET d == props[k].data IN
         /\ props[k].mode = "PropModeReplace"
         /\ otpClear # 0 => d = <<>>
         /\ (otpClear = 0 /\ alsoView = 0) =>
              /\ Len(d) = 8 /\ AllDigits(d)
              /\ Len(printed) = 1 /\ printed[1].text = d
         /\ (otpClear = 0 /\ alsoView # 0) =>
              /\ Len(d) = 16 /\ AllDigits(d)
              /\ Len(printed) = 2
              /\ printed[1].text = SubSeq(d, 1, 8)
              /\ printed[2].text = SubSeq(d, 9, 16)

C9_Witness ==
  /\ props # <<>>
  /\ props[1].name = "VNC_OTP"
  /\ Len(props[1].data) = 16
  /\ full = [hi |-> 65535, lo |-> 65535]
  /\ view = U32(7)

(* C10: the payload written to VNC_ACL, with replace semantics, is one flag
   byte (bit 0 set iff add, bit 4 set iff view-only, nothing else) followed
   by the bytes of the username, which is 1 to 63 bytes long. *)
C10_AclPayload ==
  \A k \in 1..Len(props) :
    props[k].name = "VNC_ACL" =>
      LET d == props[k].data IN
      /\ props[k].mode = "PropModeReplace"
      /\ Len(user) \in 1..MAXUSERLEN
      /\ Len(d) = Len(user) + 1
      /\ SubSeq(d, 2, Len(d)) = user
      /\ (d[1] % 2 = 1) <=> (addUser = 1)
      /\ ((d[1] \div 16) % 2 = 1) <=> (alsoView # 0)
      /\ d[1] \in {0, 1, 16, 17}

C10_Witness ==
  /\ props # <<>>
  /\ props[1].name = "VNC_ACL"
  /\ props[1].data = <<17>> \o Word(MAXUSERLEN)

(* C11: in ACL mode a username that is missing (no argument after -a or -r:
   usage), empty, or longer than 63 bytes ends the run with a non-zero
   status; no display connection has been opened and no property written. *)
C11_BadUserRejected ==
  /\ (userList # 0 /\ otp = 0 /\ pc \notin {"parse", "mode"}
        /\ (user = NullStr \/ Len(user) = 0 \/ Len(user) > MAXUSERLEN)) =>
       /\ pc \in {"ul_check", "exit"}
       /\ pc = "exit" => exitStatus # 0
       /\ dpy = "none" /\ props = <<>>
  /\ "usage" \in stderr =>
       /\ pc = "exit" /\ exitStatus # 0
       /\ dpy = "none" /\ props = <<>>

C11_Witness ==
  /\ pc = "exit"
  /\ "username is too large" \in stderr
  /\ Len(user) = MAXUSERLEN + 1
  /\ dpy = "none"

(* C12: a step of ask_password from the "Verify: " prompt returns success
   only when the confirmation entry cut to 8 bytes equals the primary entry
   of the same round cut to 8 bytes, and the result buffer then holds that
   value; it goes back to the "Password: " prompt exactly on a mismatch,
   with nothing stored and no exit; it never returns failure. *)
C12_VerifyLoop ==
  [][pc = "ap_verify" =>
       /\ pc' \in {"yesno", "store"} =>
            LET a == acq'[ap_result] IN
            /\ a.input = lastEntry.input
            /\ Len(a.input) >= MINPWLEN
            /\ Take8(a.verify) = Take8(a.input)
            /\ CStr(IF ap_result = 1 THEN passwd1' ELSE passwd2') = Take8(a.input)
            /\ (ap_result = 2) = (passwd2_ptr' = "passwd2")
       /\ pc' = "ap_password" =>
            /\ CStr(gp_buf') # Take8(lastEntry.input)
            /\ "Passwords do not match. Please try again." \in stderr'
            /\ exitStatus' = exitStatus /\ stored' = stored
            /\ ap_result' = ap_result
       /\ pc' \in {"yesno", "store", "ap_password", "exit"}
       /\ pc' = "exit" => exitStatus' \notin {0, 1}
    ]_vars

C12_Witness ==
  /\ pc = "yesno"
  /\ "Passwords do not match. Please try again." \in stderr
  /\ acq[1].input = Word(MaxEntryLen)
  /\ acq[1].verify = Word(PWTRUNC)
  /\ CStr(passwd1) = Word(PWTRUNC)

(* C13: the step of main after the primary password: without -v the
   question is asked and the view-only prompt is entered if and only if an
   answer was read and its first byte is 'y' or 'Y'; otherwise the run goes
   on to the storage call with no view-only password.  With -v nothing is
   read from standard input and the prompt is entered. *)
C13_YesNo ==
  [][pc = "yesno" =>
       /\ alsoView # 0 =>
            /\ linesFed' = linesFed /\ stdinPending' = stdinPending
            /\ "Would you like to enter a view-only password (y/n)?" \notin stderr'
            /\ pc' = "ap_password" /\ ap_result' = 2
       /\ alsoView = 0 =>
            /\ "Would you like to enter a view-only password (y/n)?" \in stderr'
            /\ (pc' = "ap_password" /\ ap_result' = 2) <=>
                 (/\ linesFed' # linesFed
                  /\ linesFed'[Len(linesFed')][1] \in {89, 121})
            /\ pc' # "ap_password" => (pc' = "store" /\ passwd2_ptr' = "NULL")
    ]_vars

(* C14: when DoOTP has returned after writing the property, neither bytes
   nor buf holds a digit of an OTP that was issued; and bytes is not zeroed
   before the write: what is written is the digits that were printed. *)
C14_OtpBuffersZero ==
  /\ (pc = "exit" /\ \E k \in 1..Len(props) : props[k].name = "VNC_OTP") =>
       /\ NoSecret(bytes)
       /\ NoSecret(buf)
  /\ (pc = "otp_change" /\ otpClear = 0) =>
       SubSeq(bytes, 1, MAXPWLEN) = printed[1].text

RECURSIVE DigitsValue(_)
(* the number a string of digits denotes *)
DigitsValue(d) ==
  IF d = <<>> THEN 0
  ELSE 10 * DigitsValue(SubSeq(d, 1, Len(d) - 1)) + (d[Len(d)] - 48)

(* v < 10^8 and v < 10^9 on the halves of v *)
Below1e8(v) == v.hi < 1525 \/ (v.hi = 1525 /\ v.lo < 57600)
Below1e9(v) == v.hi < 15258 \/ (v.hi = 15258 /\ v.lo < 51712)

(* C15, as stated: each 8-byte half written to VNC_OTP is the 8-digit
   zero-padded decimal representation of the value drawn for it. *)
C15_HalfIsDecimalOfValue ==
  \A k \in 1..Len(props) :
    (props[k].name = "VNC_OTP" /\ otpClear = 0) =>
      LET d == props[k].data IN
      /\ AllDigits(d)
      /\ U32(DigitsValue(SubSeq(d, 1, 8))) = full
      /\ alsoView # 0 => U32(DigitsValue(SubSeq(d, 9, 16))) = view

(* h is the first 8 characters of v in decimal, zero-padded to at least 8
   digits: v itself below 10^8, v without its last digit below 10^9, v
   without its last two digits above *)
LeadingDigits(h, v) ==
  /\ Len(h) = 8 /\ AllDigits(h)
  /\ U32(DigitsValue(h)) =
       (IF Below1e8(v) THEN v
        ELSE IF Below1e9(v) THEN Div10(v) ELSE Div10(Div10(v)))

(* C15, amended: each 8-byte half written to VNC_OTP is the first 8
   characters of the value drawn for it, printed in decimal and zero-padded
   to at least 8 digits. *)
C15_HalfIsLeadingDigits ==
  \A k \in 1..Len(props) :
    (props[k].name = "VNC_OTP" /\ otpClear = 0) =>
      LET d == props[k].data IN
      /\ LeadingDigits(SubSeq(d, 1, 8), full)
      /\ alsoView # 0 => LeadingDigits(SubSeq(d, 9, 16), view)

C15_Witness ==
  /\ props # <<>>
  /\ props[1].name = "VNC_OTP"
  /\ otpClear = 0
  /\ full = U32(100000000)
  /\ view = U32(2147483647)
  /\ props[1].data = <<49, 48, 48, 48, 48, 48, 48, 48, 50, 49, 52, 55, 52, 56, 51, 54>>

(* C16: when the real and the effective user id differ, the ownership check
   of mkdir_and_check passes a directory owned by the effective user and
   fails one owned by the real user. *)
C16_OwnerIsEffectiveUser ==
  (stbuf # Unobserved /\ euid # "ruid") =>
    /\ (/\ stbuf.kind = "dir"
        /\ stbuf.uid = euid
        /\ (check_strictly = 0 \/ stbuf.mode % 64 = 0)) => passwdDir \in checked
    /\ stbuf.uid = "ruid" => McFailed

(* C17: on an absent path mkdir_and_check creates the directory with mode
   0700 and inspects it again; the checks are applied to what that second
   inspection finds.  A first inspection that fails otherwise, a failed
   creation and a failed second inspection end the run with a non-zero
   status, and nothing is created after a first inspection that failed
   otherwise. *)
C17_AbsentPathCreated ==
  /\ ("VNC directory does not exist, creating." \in stderr /\ pc = "mc_check") =>
       fs = [kind |-> "dir", uid |-> euid, mode |-> S_IRWXU]
  /\ ("VNC directory does not exist, creating." \in stderr /\ stbuf # Unobserved) =>
       /\ stbuf = [kind |-> "dir", uid |-> euid, mode |-> S_IRWXU]
       /\ (passwdDir \in checked) <=> (stbuf.uid = "ruid")
       /\ passwdDir \notin checked => (McFailed /\ "bad ownership" \in stderr)
  /\ "lstat() failed" \in stderr =>
       /\ pc = "exit" /\ exitStatus # 0
       /\ fs.kind = "noaccess" /\ stbuf = Unobserved
       /\ "VNC directory does not exist, creating." \notin stderr
  /\ "Error creating directory" \in stderr =>
       /\ pc = "exit" /\ exitStatus # 0
       /\ fs.kind = "absent" /\ stbuf = Unobserved
  /\ "Error in lstat()" \in stderr =>
       /\ pc = "exit" /\ exitStatus # 0
       /\ stbuf = Unobserved /\ checked = {} /\ stored = <<>>

C17_Witness ==
  /\ "VNC directory does not exist, creating." \in stderr
  /\ stbuf # Unobserved
  /\ check_strictly # 0
  /\ passwdDir \in checked
  /\ pc = "ask1"

(* C18: in a run whose mode is OTP or ACL issuance, mkdir_and_check,
   read_password, ask_password and the storage collaborator are never
   entered: the path is never inspected or created, nothing is read from
   standard input or the terminal, and nothing is stored. *)
C18_IssuersBypassPasswordFile ==
  (otp # 0 \/ userList # 0) =>
    /\ pc \notin {"mkdir", "mc_lstat", "mc_check", "read1", "read2", "ask1",
                  "yesno", "ap_password", "ap_verify", "store"}
    /\ fs = Unobserved /\ stbuf = Unobserved /\ checked = {}
    /\ linesFed = <<>> /\ lastEntry = NoAcq /\ acq = [k \in {1, 2} |-> NoAcq]
    /\ stored = <<>>
    /\ "Using password file" \notin stderr

C18_Witness ==
  /\ pc = "exit"
  /\ exitStatus = 0
  /\ userList # 0
  /\ props # <<>>
  /\ fs = Unobserved
  /\ stored = <<>>

(* C19: when DoOTP or DoUserList has returned, a display connection that
   was opened has been closed; when the property was not found or the random
   source failed, no property has been written and the status is not 0. *)
C19_DisplayClosed ==
  pc = "exit" =>
    /\ dpy # "open"
    /\ (stderr \cap {"The X display does not support VNC one-time passwords",
                     "The X server does not support VNC user access control lists",
                     "/dev/urandom", "Could not read random number"} # {}) =>
         (props = <<>> /\ exitStatus # 0)

(* C20: "-t is incompatible" is printed only when -t was on the command
   line; a command line with -o or -c alone, or -a or -r alone, fully read,
   enters DoOTP or DoUserList whatever HOME holds. *)
C20_TmpErrorOnlyWithT ==
  /\ (stderr \cap {"-t is incompatible with -o",
                   "-t is incompatible with -a and -r"} # {}) => "t" \in seen
  /\ (pc = "exit" /\ args = <<>> /\ "usage" \notin stderr) =>
       /\ seen = {"o"} =>
            (dpy # "none" \/ "unable to open display" \in stderr)
       /\ seen = {"a"} =>
            (\/ dpy # "none"
             \/ stderr \cap {"unable to open display", "missing the username!",
                              "username is too large"} # {})
====
